---- MODULE Spec2Model ----
(***************************************************************************)
(* A model of pyLaserPulse/units_utils.py: the SI prefix tables, the       *)
(* second <-> hertz flip, and the prefix optimisation of units and         *)
(* quantities.                                                             *)
(*                                                                         *)
(* Modelling conventions                                                   *)
(*  - A number is a record [n, d, e] denoting n/d * 10^e in canonical form *)
(*    (see Norm).  Arithmetic is exact: np.log10, np.floor and ** are      *)
(*    modelled by their real-number values, not by IEEE rounding.          *)
(*  - A unit name is a sequence of characters, so that name[0] and         *)
(*    name[1:] of the source are Head and Tail.                            *)
(*  - astropy's classes are the value of the field cls.  CompositeUnit     *)
(*    stores the scale, bases and powers it is given, in the order given   *)
(*    (the ordered sequence of (base, power) pairs of the data model).     *)
(*  - A raised exception is a value [cls |-> "Error", exc |-> ...] that    *)
(*    every caller propagates.                                             *)
(***************************************************************************)
EXTENDS Integers, Sequences, FiniteSets, TLC

VARIABLES pc, op, arg, fix_time_freq, result, prefix_map, exponent_map

vars == <<pc, op, arg, fix_time_freq, result, prefix_map, exponent_map>>

(***************************************************************************)
(* Bounds of the model                                                     *)
(***************************************************************************)
\* decimal exponents of the scales and values drawn as inputs: -MaxExp..MaxExp
MaxExp == 6
\* powers of the bases drawn as inputs: -MaxPow..MaxPow without 0
MaxPow == 2
\* number of (base, power) pairs that follow the first pair of a drawn unit
MaxTail == 2
\* number of elements of a drawn array quantity
MaxLen == 3

(***************************************************************************)
(* Exact arithmetic on numbers n/d * 10^e                                  *)
(***************************************************************************)
IAbs(i) == IF i < 0 THEN -i ELSE i

RECURSIVE Gcd(_, _)
Gcd(a, b) == IF b = 0 THEN a ELSE Gcd(b, a % b)

RECURSIVE Pow10(_)
Pow10(k) == IF k <= 0 THEN 1 ELSE 10 * Pow10(k - 1)

RECURSIVE IPow(_, _)
IPow(b, k) == IF k <= 0 THEN 1 ELSE b * IPow(b, k - 1)

\* the canonical form of n/d * 10^e (d > 0): n and d coprime, n not a
\* multiple of 10, d coprime to 10; zero is 0/1 * 10^0
RECURSIVE Norm(_, _, _)
Norm(n, d, e) ==
    IF n = 0 THEN [n |-> 0, d |-> 1, e |-> 0]
    ELSE IF Gcd(IAbs(n), d) > 1
         THEN Norm(n \div Gcd(IAbs(n), d), d \div Gcd(IAbs(n), d), e)
    ELSE IF n % 10 = 0 THEN Norm(n \div 10, d, e + 1)
    ELSE IF d % 2 = 0 THEN Norm(n * 5, d \div 2, e - 1)
    ELSE IF d % 5 = 0 THEN Norm(n * 2, d \div 5, e - 1)
    ELSE [n |-> n, d |-> d, e |-> e]

Num(n, e) == Norm(n, 1, e)
Zero == Num(0, 0)
One == Num(1, 0)

NumSign(x) == IF x.n >= 0 THEN 1 ELSE -1
NumAbs(x) == [x EXCEPT !.n = IAbs(x.n)]
NumNeg(x) == [x EXCEPT !.n = -x.n]
NumMul(x, y) == Norm(x.n * y.n, x.d * y.d, x.e + y.e)
NumDiv(x, y) ==
    IF y.n < 0 THEN Norm(-(x.n * y.d), x.d * (-y.n), x.e - y.e)
    ELSE Norm(x.n * y.d, x.d * y.n, x.e - y.e)
\* x * 10^k
NumShift(x, k) == IF x.n = 0 THEN x ELSE [x EXCEPT !.e = x.e + k]
NumAdd(x, y) ==
    LET m == IF x.e < y.e THEN x.e ELSE y.e
    IN  Norm(x.n * Pow10(x.e - m) * y.d + y.n * Pow10(y.e - m) * x.d,
             x.d * y.d, m)
NumSub(x, y) == NumAdd(x, NumNeg(y))
\* x^k for an integer k (x # 0 when k < 0)
NumPow(x, k) ==
    IF k >= 0 THEN Norm(IPow(x.n, k), IPow(x.d, k), x.e * k)
    ELSE IF x.n < 0
         THEN Norm(IPow(-x.d, -k), IPow(-x.n, -k), x.e * k)
         ELSE Norm(IPow(x.d, -k), IPow(x.n, -k), x.e * k)

\* floor(log10(n/d)) for n, d > 0
RECURSIVE ILog(_, _)
ILog(n, d) ==
    IF n < d THEN ILog(10 * n, d) - 1
    ELSE IF n >= 10 * d THEN ILog(n, 10 * d) + 1
    ELSE 0

\* np.floor(np.log10(x)) for x > 0
Log10Floor(x) == x.e + ILog(x.n, x.d)
\* whether np.log10(x) is an integer, x > 0: x is a power of ten
Log10IsInt(x) == x.n = 1 /\ x.d = 1

\* comparisons of a number x > 0 with 10^k
GePow10(x, k) == Log10Floor(x) >= k
LtPow10(x, k) == Log10Floor(x) < k
LePow10(x, k) == Log10Floor(x) < k \/ x = Num(1, k)
GtPow10(x, k) == Log10Floor(x) >= k /\ x # Num(1, k)

\* floor(a / b) for b > 0
FloorDiv(a, b) == a \div b

(***************************************************************************)
(* Sequences                                                               *)
(***************************************************************************)
Range(s) == {s[i] : i \in DOMAIN s}
IndexOf(s, x) == IF x \in Range(s) THEN CHOOSE i \in DOMAIN s : s[i] = x ELSE 0
Rest(s) == IF s = <<>> THEN <<>> ELSE Tail(s)
SeqMap(F(_), s) == [i \in DOMAIN s |-> F(s[i])]

(***************************************************************************)
(* Exceptions                                                              *)
(***************************************************************************)
Raise(exc) == [cls |-> "Error", exc |-> exc]
IsError(x) == x.cls = "Error"

(***************************************************************************)
(* Python values                                                           *)
(***************************************************************************)
PyInt(i) == [cls |-> "int", value |-> i]
PyStr(c) == [cls |-> "str", value |-> c]
PyNumber(x) == [cls |-> "Number", value |-> x]
PyTuple(base, pwr) == [cls |-> "tuple", base |-> base, pwr |-> pwr]
NoValue == [cls |-> "None"]

(***************************************************************************)
(* The SI prefix tables                                                    *)
(***************************************************************************)
si_prefixes ==
    <<"y", "z", "a", "f", "p", "n", "u", "m", "k", "M", "G", "T", "P", "E", "Z", "Y">>

\* range(-24, 25, 3) with the 0 left in
si_exponents_withzero == [i \in 1..17 |-> 3 * i - 27]


si_exponents == SelectSeq([i \in 1..17 |-> 3 * i - 27], LAMBDA x : x # 0)

attosecond_exponent == -18

\* {pref: exp for (pref, exp) in zip(si_prefixes, si_exponents)}
prefix_map_init ==
    [p \in Range(si_prefixes) |-> si_exponents[IndexOf(si_prefixes, p)]]

\* each exponent mapped to the prefix of the opposite exponent
exponent_map_init_flipped ==
    [x \in {prefix_map_init[p] : p \in DOMAIN prefix_map_init} |->
        CHOOSE p \in DOMAIN prefix_map_init : prefix_map_init[p] = -x]

\* {exp: pref for (pref, exp) in prefix_map.items()}
exponent_map_init ==
    [x \in {prefix_map_init[p] : p \in DOMAIN prefix_map_init} |->
        CHOOSE p \in DOMAIN prefix_map_init : prefix_map_init[p] = x]

pref_to_expon(pref) ==
    IF pref \in DOMAIN prefix_map THEN PyInt(prefix_map[pref])
    ELSE Raise("ValueError")

expon_to_pref(expon) ==
    IF expon \in DOMAIN exponent_map THEN PyStr(exponent_map[expon])
    ELSE Raise("ValueError")

\* si_prefixes.find(pref): the 0-based index, -1 when absent, 0 for the
\* empty string
Find(pref) == IF pref = "" THEN 0 ELSE IndexOf(si_prefixes, pref) - 1

\* the index taken from the length instead of the last position
flip_prefix_shifted(pref) ==
    IF Len(si_prefixes) - Find(pref) >= Len(si_prefixes) THEN Raise("IndexError")
    ELSE PyStr(si_prefixes[Len(si_prefixes) - Find(pref) + 1])


flip_prefix(pref) ==
    LET idx == Len(si_prefixes) - 1 - Find(pref)
    IN  IF idx >= Len(si_prefixes) THEN Raise("IndexError")
        ELSE PyStr(si_prefixes[idx + 1])

(***************************************************************************)
(* Units of astropy.units                                                  *)
(***************************************************************************)
sym_s == <<"s">>
sym_Hz == <<"H", "z">>
sym_m == <<"m">>
sym_g == <<"g">>
sym_A == <<"A">>
UnitSymbols == {sym_s, sym_Hz, sym_m, sym_g, sym_A}

PhysicalType(sym) ==
    CASE sym = sym_s -> "time"
      [] sym = sym_Hz -> "frequency"
      [] sym = sym_m -> "length"
      [] sym = sym_g -> "mass"
      [] OTHER -> "electrical current"

NamedUnit(cls, name, ptype) ==
    [cls |-> cls, name |-> name, physical_type |-> ptype]

second == NamedUnit("IrreducibleUnit", sym_s, "time")
hertz == NamedUnit("Unit", sym_Hz, "frequency")
meter == NamedUnit("IrreducibleUnit", sym_m, "length")
gram == NamedUnit("Unit", sym_g, "mass")
ampere == NamedUnit("IrreducibleUnit", sym_A, "electrical current")
\* kilogram is an IrreducibleUnit named kg, not a PrefixUnit
kilogram == NamedUnit("IrreducibleUnit", <<"k", "g">>, "mass")
\* centimeter is named cm and is not a PrefixUnit
centimeter == NamedUnit("Unit", <<"c", "m">>, "length")
\* the attosecond has no short name: "as" is not a unit string
attosecond ==
    NamedUnit("PrefixUnit", <<"a", "t", "t", "o", "s", "e", "c", "o", "n", "d">>, "time")

PrefixUnit(p, sym) == NamedUnit("PrefixUnit", <<p>> \o sym, PhysicalType(sym))
exahertz == PrefixUnit("E", sym_Hz)

BaseUnit(sym) ==
    CASE sym = sym_s -> second
      [] sym = sym_Hz -> hertz
      [] sym = sym_m -> meter
      [] sym = sym_g -> gram
      [] OTHER -> ampere

\* units.Unit(string): the unit of that name
Unit(name) ==
    IF name = kilogram.name THEN kilogram
    ELSE IF name = centimeter.name THEN centimeter
    ELSE IF name \in UnitSymbols THEN BaseUnit(name)
    ELSE IF /\ Len(name) > 1
            /\ Head(name) \in Range(si_prefixes)
            /\ Tail(name) \in UnitSymbols
            /\ name # <<"a", "s">>
         THEN PrefixUnit(Head(name), Tail(name))
    ELSE Raise("ValueError")

CompositeUnit(scale, bases, powers) ==
    [cls |-> "CompositeUnit", scale |-> scale, bases |-> bases, powers |-> powers]

Quantity(value, isscalar, unit) ==
    [cls |-> "Quantity", value |-> value, isscalar |-> isscalar, unit |-> unit]

IsCompositeUnit(x) == x.cls = "CompositeUnit"
IsPrefixUnit(x) == x.cls = "PrefixUnit"
IsNamedUnit(x) == x.cls \in {"IrreducibleUnit", "Unit", "PrefixUnit"}
IsQuantity(x) == x.cls = "Quantity"

\* the scale, bases and powers properties: a named unit is 1 * itself^1
ScaleOf(u) == IF IsCompositeUnit(u) THEN u.scale ELSE One
BasesOf(u) == IF IsCompositeUnit(u) THEN u.bases ELSE <<u>>
PowersOf(u) == IF IsCompositeUnit(u) THEN u.powers ELSE <<1>>

(***************************************************************************)
(* second <-> hertz                                                        *)
(***************************************************************************)
\* abs(x - 1) <= atol + rtol * abs(1) with rtol = 1e-6 and atol = 1e-10;
\* a number below 0.1 or not below 10 is further than 0.9 from 1
is_unity(x) ==
    IF x.n <= 0 THEN FALSE
    ELSE IF Log10Floor(x) \notin {-1, 0} THEN FALSE
    ELSE LET diff == NumAbs(NumSub(x, One))
             tol == NumAdd(Num(1, -10), NumMul(Num(1, -6), One))
         IN  \/ diff.n = 0
             \/ Log10Floor(diff) < Log10Floor(tol)
             \/ /\ Log10Floor(diff) = Log10Floor(tol)
                /\ NumSub(tol, diff).n >= 0

\* is_unity of an integer power
is_unity_int(p) == p = 1

is_time_freq(x) == x.physical_type = "time" \/ x.physical_type = "frequency"

\* the pair of a unit and a power, or the error raised in place of the unit
PairOrError(u, pwr) == IF IsError(u) THEN u ELSE PyTuple(u, pwr)

\* the power of an unprefixed second or hertz kept as it is
fixhertz_item_nonegate(base, pwr) ==
    IF pwr >= 0 \/ ~is_time_freq(base) THEN PyTuple(base, pwr)
    ELSE IF ~IsPrefixUnit(base) THEN
        IF base = second THEN PyTuple(hertz, pwr)
        ELSE IF base = hertz THEN PyTuple(second, pwr)
        ELSE PyTuple(base, pwr)
    ELSE IF base = attosecond THEN PyTuple(exahertz, -pwr)
    ELSE IF IsError(flip_prefix(Head(base.name))) THEN flip_prefix(Head(base.name))
    ELSE IF Tail(base.name) = sym_s
         THEN PairOrError(Unit(<<flip_prefix(Head(base.name)).value>> \o sym_Hz), -pwr)
    ELSE IF Tail(base.name) = sym_Hz
         THEN PairOrError(Unit(<<flip_prefix(Head(base.name)).value>> \o sym_s), -pwr)
    ELSE PyTuple(base, pwr)


\* the power 0 taken for a negative power
fixhertz_item_zero(base, pwr) ==
    IF pwr > 0 \/ ~is_time_freq(base) THEN PyTuple(base, pwr)
    ELSE IF ~IsPrefixUnit(base) THEN
        IF base = second THEN PyTuple(hertz, -pwr)
        ELSE IF base = hertz THEN PyTuple(second, -pwr)
        ELSE PyTuple(base, pwr)
    ELSE IF base = attosecond THEN PyTuple(exahertz, -pwr)
    ELSE IF IsError(flip_prefix(Head(base.name))) THEN flip_prefix(Head(base.name))
    ELSE IF Tail(base.name) = sym_s
         THEN PairOrError(Unit(<<flip_prefix(Head(base.name)).value>> \o sym_Hz), -pwr)
    ELSE IF Tail(base.name) = sym_Hz
         THEN PairOrError(Unit(<<flip_prefix(Head(base.name)).value>> \o sym_s), -pwr)
    ELSE PyTuple(base, pwr)


fixhertz_item(base, pwr) ==
    IF pwr >= 0 \/ ~is_time_freq(base) THEN PyTuple(base, pwr)
    ELSE IF ~IsPrefixUnit(base) THEN
        IF base = second THEN PyTuple(hertz, -pwr)
        ELSE IF base = hertz THEN PyTuple(second, -pwr)
        ELSE PyTuple(base, pwr)
    ELSE IF base = attosecond THEN PyTuple(exahertz, -pwr)
    ELSE LET prefix == Head(base.name)
             base_name == Tail(base.name)
             new_prefix == flip_prefix(prefix)
         IN  IF IsError(new_prefix) THEN new_prefix
             ELSE IF base_name = sym_s THEN
                 LET u == Unit(<<new_prefix.value>> \o sym_Hz)
                 IN  IF IsError(u) THEN u ELSE PyTuple(u, -pwr)
             ELSE IF base_name = sym_Hz THEN
                 LET u == Unit(<<new_prefix.value>> \o sym_s)
                 IN  IF IsError(u) THEN u ELSE PyTuple(u, -pwr)
             ELSE PyTuple(base, pwr)

\* the unit made of the flipped pairs
FlippedUnit(u2, fixes) ==
    IF \E i \in DOMAIN fixes : IsError(fixes[i])
    THEN fixes[CHOOSE i \in DOMAIN fixes :
                  IsError(fixes[i]) /\ \A j \in 1..(i - 1) : ~IsError(fixes[j])]
    ELSE IF fixes = <<>> THEN u2
    ELSE IF is_unity(ScaleOf(u2)) /\ Len(fixes) = 1 /\ is_unity_int(fixes[1].pwr)
         THEN fixes[1].base
    ELSE CompositeUnit(ScaleOf(u2),
                       [i \in DOMAIN fixes |-> fixes[i].base],
                       [i \in DOMAIN fixes |-> fixes[i].pwr])

fixhertz_comp(u2) ==
    FlippedUnit(u2, [i \in DOMAIN BasesOf(u2) |->
                        fixhertz_item(BasesOf(u2)[i], PowersOf(u2)[i])])

\* Quantity(x.value, unit)
WithUnit(x, unit) ==
    IF IsError(unit) THEN unit ELSE Quantity(x.value, x.isscalar, unit)

fixhertz(x) ==
    IF IsQuantity(x) THEN WithUnit(x, fixhertz_comp(x.unit))
    ELSE IF IsCompositeUnit(x) THEN fixhertz_comp(x)
    ELSE x

(***************************************************************************)
(* Prefix optimisation                                                     *)
(***************************************************************************)
\* the kilogram read without its prefix
BaseNameExpon_nokg(unit) ==
    IF unit = attosecond THEN [unit_name |-> sym_s, expon |-> PyInt(attosecond_exponent)]
    ELSE IF unit = kilogram THEN [unit_name |-> sym_g, expon |-> PyInt(0)]
    ELSE IF unit = centimeter THEN [unit_name |-> sym_m, expon |-> PyInt(-2)]
    ELSE IF IsPrefixUnit(unit)
         THEN [unit_name |-> Tail(unit.name), expon |-> pref_to_expon(Head(unit.name))]
    ELSE [unit_name |-> unit.name, expon |-> PyInt(0)]

\* the centimeter taken for an unprefixed unit
BaseNameExpon_nocm(unit) ==
    IF unit = attosecond THEN [unit_name |-> sym_s, expon |-> PyInt(attosecond_exponent)]
    ELSE IF unit = kilogram THEN [unit_name |-> sym_g, expon |-> PyInt(3)]
    ELSE IF IsPrefixUnit(unit)
         THEN [unit_name |-> Tail(unit.name), expon |-> pref_to_expon(Head(unit.name))]
    ELSE [unit_name |-> unit.name, expon |-> PyInt(0)]

\* (unit_name, expon) of a base
BaseNameExpon(unit) ==
    IF unit = attosecond THEN [unit_name |-> sym_s, expon |-> PyInt(attosecond_exponent)]
    ELSE IF unit = kilogram THEN [unit_name |-> sym_g, expon |-> PyInt(3)]
    ELSE IF unit = centimeter THEN [unit_name |-> sym_m, expon |-> PyInt(-2)]
    ELSE IF IsPrefixUnit(unit)
         THEN [unit_name |-> Tail(unit.name), expon |-> pref_to_expon(Head(unit.name))]
    ELSE [unit_name |-> unit.name, expon |-> PyInt(0)]

\* floor(-x) taken as -floor(x) for a negative power
FloorThird_nofrac(expon, value, pwr) ==
    IF pwr > 0 THEN FloorDiv(expon * pwr + Log10Floor(value), 3 * pwr)
    ELSE FloorDiv(expon * (-pwr) - Log10Floor(value), 3 * (-pwr))

\* np.floor((expon + np.log10(value ** (1 / pwr))) / 3) for value > 0 and
\* an integer pwr # 0.  With log10(value) = L + f, L = Log10Floor(value) and
\* 0 <= f < 1 (f = 0 exactly when value is a power of ten):
\*   pwr > 0: floor((expon * pwr + L + f) / (3 * pwr))
\*   pwr < 0: floor((expon * |pwr| - L - f) / (3 * |pwr|))
\* and for integers a, b > 0: floor((a + f) / b) = floor(a / b), while
\* floor((a - f) / b) = floor((a - 1) / b) when f > 0.
FloorThird(expon, value, pwr) ==
    LET L == Log10Floor(value)
        f == IF Log10IsInt(value) THEN 0 ELSE 1
    IN  IF pwr > 0 THEN FloorDiv(expon * pwr + L, 3 * pwr)
        ELSE FloorDiv(expon * (-pwr) - L - f, 3 * (-pwr))

Min(a, b) == IF a < b THEN a ELSE b
Max(a, b) == IF a > b THEN a ELSE b

\* the multiple of 3 below the one the floor gives
NewExpon_down(expon, value, pwr) ==
    Min(24, Max(-24, (FloorThird(expon, value, pwr) - 1) * 3))

\* the exponent rounded up to the next multiple of 3
NewExpon_up(expon, value, pwr) ==
    Min(24, Max(-24, (FloorThird(expon, value, pwr) + 1) * 3))

\* min(24, max(-24, np.floor(...) * 3))
NewExpon(expon, value, pwr) == Min(24, Max(-24, FloorThird(expon, value, pwr) * 3))

\* the value not rescaled
NewValue_kept(value, expon, new_expon, pwr) == value

\* the power left out of the rescaling
NewValue_nopwr(value, expon, new_expon, pwr) == NumShift(value, expon - new_expon)

\* the value rescaled in the opposite direction
NewValue_reversed(value, expon, new_expon, pwr) ==
    NumShift(value, new_expon * pwr - expon * pwr)

\* value * 10 ** (expon * pwr - new_expon * pwr)
NewValue(value, expon, new_expon, pwr) == NumShift(value, expon * pwr - new_expon * pwr)

\* the unit named new_prefix + unit_name
NewUnit(new_expon, unit_name) ==
    LET new_prefix == IF new_expon # 0 THEN expon_to_pref(new_expon) ELSE PyStr("")
    IN  IF IsError(new_prefix) THEN new_prefix
        ELSE LET new_unit_name == IF new_prefix.value = "" THEN unit_name
                                  ELSE <<new_prefix.value>> \o unit_name
             IN  IF new_unit_name = <<"a", "s">> THEN attosecond
                 ELSE Unit(new_unit_name)

opt_single_base(simple_unit) ==
    IF ~IsCompositeUnit(simple_unit) THEN Raise("TypeError")
    ELSE IF Len(simple_unit.bases) > 1 THEN Raise("TypeError")
    ELSE IF Len(simple_unit.bases) = 0 THEN Raise("IndexError")
    ELSE LET sign == IF simple_unit.scale.n >= 0 THEN 1 ELSE -1
             value == NumAbs(simple_unit.scale)
             unit == simple_unit.bases[1]
             ne == BaseNameExpon(unit)
             pwr == simple_unit.powers[1]
         IN  IF IsError(ne.expon) THEN ne.expon
             ELSE IF pwr = 0 \/ value.n = 0 THEN Raise("ZeroDivisionError")
             ELSE LET new_expon == NewExpon(ne.expon.value, value, pwr)
                      new_value == NewValue(value, ne.expon.value, new_expon, pwr)
                      new_unit == NewUnit(new_expon, ne.unit_name)
                  IN  IF IsError(new_unit) THEN new_unit
                      ELSE CompositeUnit(IF sign = 1 THEN new_value ELSE NumNeg(new_value),
                                         <<new_unit>>, <<pwr>>)

(***************************************************************************)
(* decompose() of a composite base: its expansion into irreducible units   *)
(***************************************************************************)
\* the irreducible unit of a named base and the power it stands for
Irreducible(base) ==
    LET sym == BaseNameExpon(base).unit_name
    IN  CASE sym = sym_Hz -> [unit |-> second, pwr |-> -1]
          [] sym = sym_g -> [unit |-> kilogram, pwr |-> 1]
          [] OTHER -> [unit |-> BaseUnit(sym), pwr |-> 1]

\* the decimal exponent of a named base relative to its irreducible unit
SIExponent(base) ==
    LET ne == BaseNameExpon(base)
    IN  IF ne.unit_name = sym_g THEN ne.expon.value - 3 ELSE ne.expon.value

RECURSIVE SumSeq(_)
SumSeq(s) == IF s = <<>> THEN 0 ELSE Head(s) + SumSeq(Tail(s))

\* the irreducible units of a composite, in the order of first occurrence
RECURSIVE IrreducibleUnits(_)
IrreducibleUnits(bases) ==
    IF bases = <<>> THEN <<>>
    ELSE LET rest == IrreducibleUnits(Tail(bases))
             u == Irreducible(Head(bases)).unit
         IN  <<u>> \o SelectSeq(rest, LAMBDA v : v # u)

Decompose(c) ==
    LET bases == BasesOf(c)
        powers == PowersOf(c)
        irr == IrreducibleUnits(bases)
        total(u) == SumSeq([i \in DOMAIN bases |->
                        IF Irreducible(bases[i]).unit = u
                        THEN Irreducible(bases[i]).pwr * powers[i] ELSE 0])
        kept == SelectSeq(irr, LAMBDA u : total(u) # 0)
        shift == SumSeq([i \in DOMAIN bases |-> SIExponent(bases[i]) * powers[i]])
    IN  CompositeUnit(NumShift(ScaleOf(c), shift), kept,
                      [i \in DOMAIN kept |-> total(kept[i])])

\* CompositeUnit(unit.scale, dec_base.bases[0], dec_base.powers[0] * unit.powers[0])
SubBase(unit, dec_base) ==
    CompositeUnit(ScaleOf(unit), <<dec_base.bases[1]>>,
                  <<dec_base.powers[1] * PowersOf(unit)[1]>>)

\* the optimised sub-base followed by the other terms of the decomposition
Splice(opt_sub_base, dec_base) ==
    IF IsError(opt_sub_base) THEN opt_sub_base
    ELSE CompositeUnit(opt_sub_base.scale,
                       opt_sub_base.bases \o Tail(dec_base.bases),
                       opt_sub_base.powers \o Tail(dec_base.powers))

\* the pairs 2..N appended in reverse order
AppendRest_reversed(new_base, unit) ==
    IF IsError(new_base) THEN new_base
    ELSE CompositeUnit(new_base.scale,
                       new_base.bases \o
                           [i \in 1..(Len(BasesOf(unit)) - 1) |->
                               BasesOf(unit)[Len(BasesOf(unit)) + 1 - i]],
                       new_base.powers \o
                           [i \in 1..(Len(PowersOf(unit)) - 1) |->
                               PowersOf(unit)[Len(PowersOf(unit)) + 1 - i]])

\* the optimised first term followed by the pairs 2..N of the unit
AppendRest(new_base, unit) ==
    IF IsError(new_base) THEN new_base
    ELSE CompositeUnit(new_base.scale,
                       new_base.bases \o Tail(BasesOf(unit)),
                       new_base.powers \o Tail(PowersOf(unit)))

RECURSIVE opt_comp_units(_)
RECURSIVE NestedBase(_, _)

\* the branch of a composite first base, dec_base its decomposition
NestedBase(unit, dec_base) ==
    IF Len(dec_base.bases) = 0 THEN Raise("IndexError")
    ELSE Splice(opt_comp_units(SubBase(unit, dec_base)), dec_base)

opt_comp_units(unit) ==
    IF Len(BasesOf(unit)) = 0 THEN Raise("IndexError")
    ELSE AppendRest(
             IF IsCompositeUnit(BasesOf(unit)[1])
             THEN NestedBase(unit, Decompose(BasesOf(unit)[1]))
             ELSE opt_single_base(CompositeUnit(ScaleOf(unit),
                                                <<BasesOf(unit)[1]>>,
                                                <<PowersOf(unit)[1]>>)),
             unit)

opt_named_unit(unit) == unit

(***************************************************************************)
(* optimize_unit                                                           *)
(***************************************************************************)
RECURSIVE NumSum(_)
NumSum(s) == IF s = <<>> THEN Zero ELSE NumAdd(Head(s), NumSum(Tail(s)))

\* np.mean([abs(x) for x in value]); iterating a scalar raises TypeError
\* and the mean is then the value itself
MeanValue(quant) ==
    IF quant.isscalar THEN quant.value[1]
    ELSE NumDiv(NumSum([i \in DOMAIN quant.value |-> NumAbs(quant.value[i])]),
                Num(Len(quant.value), 0))

\* the unit with the mean folded into its scale
MeanUnit(quant) ==
    IF IsCompositeUnit(quant.unit)
    THEN CompositeUnit(NumMul(MeanValue(quant), quant.unit.scale),
                       quant.unit.bases, quant.unit.powers)
    ELSE CompositeUnit(MeanValue(quant), <<quant.unit>>, <<1>>)

\* the division by the mean left out
Recombine_nomean(quant, opt_unit) ==
    IF IsError(opt_unit) THEN opt_unit
    ELSE Quantity([i \in DOMAIN quant.value |-> NumMul(quant.value[i], opt_unit.scale)],
                  quant.isscalar,
                  CompositeUnit(One, opt_unit.bases, opt_unit.powers))

\* scaled_value * opt_unit.scale * CompositeUnit(1, opt_unit.bases, opt_unit.powers)
Recombine(quant, opt_unit) ==
    IF IsError(opt_unit) THEN opt_unit
    ELSE Quantity([i \in DOMAIN quant.value |->
                      NumMul(NumDiv(quant.value[i], MeanValue(quant)), opt_unit.scale)],
                  quant.isscalar,
                  CompositeUnit(One, opt_unit.bases, opt_unit.powers))

\* the quantity part of optimize_unit, new_unit the unit with the mean folded
\* in and flipped when fix_time_freq is set
OptimizeQuantity(quant, new_unit) ==
    IF IsError(new_unit) THEN new_unit
    ELSE Recombine(quant, opt_comp_units(new_unit))

\* the flip applied to a composite unit given without a quantity
optimize_unit_flipunit(quant, ftf) ==
    IF IsNamedUnit(quant) THEN opt_named_unit(quant)
    ELSE IF IsCompositeUnit(quant)
         THEN (IF ftf /\ IsCompositeUnit(fixhertz(quant))
               THEN opt_comp_units(fixhertz(quant)) ELSE opt_comp_units(quant))
    ELSE IF ~IsQuantity(quant) THEN quant
    ELSE IF MeanValue(quant) = Zero THEN quant
    ELSE OptimizeQuantity(quant,
             IF ftf THEN fixhertz(MeanUnit(quant)) ELSE MeanUnit(quant))

\* the flip applied before the test of the mean
optimize_unit_flipzero(quant, ftf) ==
    IF IsNamedUnit(quant) THEN opt_named_unit(quant)
    ELSE IF IsCompositeUnit(quant) THEN opt_comp_units(quant)
    ELSE IF ~IsQuantity(quant) THEN quant
    ELSE IF MeanValue(quant) = Zero THEN (IF ftf THEN fixhertz(quant) ELSE quant)
    ELSE OptimizeQuantity(quant,
             IF ftf THEN fixhertz(MeanUnit(quant)) ELSE MeanUnit(quant))

\* the unit flipped after its optimisation, as a composite unit
FlipAfter(opt_unit) ==
    IF IsError(opt_unit) \/ IsError(fixhertz(opt_unit)) THEN opt_unit
    ELSE CompositeUnit(ScaleOf(fixhertz(opt_unit)), BasesOf(fixhertz(opt_unit)),
                       PowersOf(fixhertz(opt_unit)))

\* the flip applied after the prefix optimisation
optimize_unit_fliplast(quant, ftf) ==
    IF IsNamedUnit(quant) THEN opt_named_unit(quant)
    ELSE IF IsCompositeUnit(quant) THEN opt_comp_units(quant)
    ELSE IF ~IsQuantity(quant) THEN quant
    ELSE IF MeanValue(quant) = Zero THEN quant
    ELSE Recombine(quant, IF ftf THEN FlipAfter(opt_comp_units(MeanUnit(quant)))
                          ELSE opt_comp_units(MeanUnit(quant)))


optimize_unit(quant, ftf) ==
    IF IsNamedUnit(quant) THEN opt_named_unit(quant)
    ELSE IF IsCompositeUnit(quant) THEN opt_comp_units(quant)
    ELSE IF ~IsQuantity(quant) THEN quant
    ELSE IF MeanValue(quant) = Zero THEN quant
    ELSE OptimizeQuantity(quant,
             IF ftf THEN fixhertz(MeanUnit(quant)) ELSE MeanUnit(quant))

(***************************************************************************)
(* The inputs the calls are made with                                      *)
(***************************************************************************)
Mantissas == {1, 5, 99}
Scales == {Num(sg * m, e) : sg \in {1, -1}, m \in Mantissas, e \in (-MaxExp)..MaxExp}
Powers == ((-MaxPow)..MaxPow) \ {0}

\* every named unit of the symbols s, Hz, m and g
NamedUnits ==
    LET syms == {sym_s, sym_Hz, sym_m, sym_g}
        parsed == {Unit(<<p>> \o sym) : p \in Range(si_prefixes), sym \in syms}
    IN  {u \in parsed : ~IsError(u)}
            \cup {BaseUnit(sym) : sym \in syms}
            \cup {attosecond, kilogram, centimeter}

SingleBaseUnits ==
    {CompositeUnit(sc, <<b>>, <<p>>) : sc \in Scales, b \in NamedUnits, p \in Powers}

\* what opt_single_base rejects
BadSingleBaseInputs ==
    {meter,
     CompositeUnit(Num(1, 3), <<>>, <<>>),
     CompositeUnit(Num(1, 3), <<meter, second>>, <<1, -1>>)}

CompScales == {Num(sg * m, e) : sg \in {1, -1}, m \in {1, 5}, e \in {-MaxExp, -3, 0, 3, MaxExp}}

FirstBases ==
    {meter, PrefixUnit("k", sym_m), PrefixUnit("y", sym_m), centimeter, kilogram,
     attosecond, second, PrefixUnit("Y", sym_s), hertz, PrefixUnit("M", sym_Hz)}

\* composite bases: a composite unit as the first base of a composite unit
NestedBases ==
    {CompositeUnit(One, <<meter, second>>, <<1, 1>>),
     CompositeUnit(One, <<PrefixUnit("k", sym_m), second>>, <<1, -1>>),
     CompositeUnit(Num(1, 3), <<meter>>, <<2>>),
     CompositeUnit(One, <<hertz, meter>>, <<1, 1>>),
     CompositeUnit(One, <<hertz, second>>, <<1, 1>>)}

TailPairs ==
    {<<second, -1>>, <<PrefixUnit("M", sym_Hz), 3>>, <<ampere, 2>>}

RECURSIVE Tails(_)
Tails(k) ==
    IF k = 0 THEN {<<>>}
    ELSE Tails(k - 1) \cup
         {<<t>> \o r : t \in TailPairs, r \in {x \in Tails(k - 1) : Len(x) = k - 1}}

WithTail(sc, b, p, tail) ==
    CompositeUnit(sc, <<b>> \o [i \in DOMAIN tail |-> tail[i][1]],
                       <<p>> \o [i \in DOMAIN tail |-> tail[i][2]])

CompUnits ==
    {WithTail(sc, b, p, t) :
        sc \in CompScales, b \in FirstBases \cup NestedBases, p \in Powers, t \in Tails(MaxTail)}
        \cup {CompositeUnit(One, <<>>, <<>>)}

\* the composite units optimize_unit and fixhertz are called with
SmallCompUnits ==
    {WithTail(sc, b, p, t) :
        sc \in {Num(1, 3), Num(-5, -MaxExp)}, b \in FirstBases \cup NestedBases,
        p \in Powers, t \in Tails(1)}
        \cup {CompositeUnit(One, <<>>, <<>>)}

Numbers == {PyNumber(Zero), PyNumber(Num(3, 0)), PyNumber(Num(-124, -1))}

QElems == {Zero, Num(1, 3), Num(2, 3), Num(3, 3), Num(-3, 3), Num(1, -3)}

RECURSIVE Arrays(_)
Arrays(k) ==
    IF k = 0 THEN {}
    ELSE Arrays(k - 1) \cup
         {<<x>> \o r : x \in QElems, r \in {y \in Arrays(k - 1) \cup {<<>>} : Len(y) = k - 1}}

QScalars == QElems \cup {Num(1, 4), Num(1, MaxExp), Num(-5, -MaxExp), Num(2, 8)}

\* the units of quantities: named units and composite units of named bases
QUnits ==
    {meter, PrefixUnit("k", sym_m), second, hertz, kilogram,
     CompositeUnit(One, <<meter>>, <<-2>>),
     CompositeUnit(One, <<hertz>>, <<-1>>),
     CompositeUnit(One, <<hertz>>, <<-2>>),
     CompositeUnit(One, <<PrefixUnit("k", sym_Hz)>>, <<-1>>),
     CompositeUnit(One, <<second>>, <<-1>>),
     CompositeUnit(One, <<second>>, <<-2>>),
     CompositeUnit(Num(2, 0), <<meter>>, <<1>>),
     CompositeUnit(Num(-3, 0), <<meter, second>>, <<1, -1>>),
     CompositeUnit(One, <<PrefixUnit("E", sym_Hz), meter>>, <<-1, 1>>),
     CompositeUnit(One, <<>>, <<>>)}

Quantities ==
    {Quantity(<<x>>, TRUE, u) : x \in QScalars, u \in QUnits}
        \cup {Quantity(a, FALSE, u) : a \in Arrays(MaxLen), u \in QUnits}

\* the (base, power) pairs fixhertz_item is called with
ItemBases ==
    NamedUnits \cup {ampere, PrefixUnit("p", sym_A), PrefixUnit("Y", sym_A)}
ItemPowers == (-MaxPow)..MaxPow
ItemPairs == {PyTuple(b, p) : b \in ItemBases, p \in ItemPowers}

\* the composite units fixhertz_comp is called with
FlatCompUnits ==
    {u \in SmallCompUnits : \A i \in DOMAIN u.bases : IsNamedUnit(u.bases[i])}
        \cup {CompositeUnit(One, <<b>>, <<p>>) :
                  b \in {second, hertz, PrefixUnit("G", sym_Hz), PrefixUnit("f", sym_s),
                         PrefixUnit("E", sym_Hz), attosecond, meter},
                  p \in Powers}
        \cup {CompositeUnit(Num(1000001, -6), <<hertz>>, <<-1>>),
               CompositeUnit(Num(1000002, -6), <<hertz>>, <<-1>>)}

\* the symbols the prefix lookups are called with: the 16 prefixes, the
\* other prefixes of the units library and strings that are no prefix
PrefixInputs == Range(si_prefixes) \cup {"c", "d", "h", "da", "K", "x", ""}

\* the exponents expon_to_pref is called with
ExponInputs == (-24 - MaxExp)..(24 + MaxExp)

(***************************************************************************)
(* The calls                                                               *)
(***************************************************************************)
TypeOK ==
    /\ pc \in {"idle", "done"}
    /\ op \in {"none", "opt_single_base", "opt_comp_units", "optimize_unit", "fixhertz",
               "fixhertz_item", "fixhertz_comp", "flip_prefix", "pref_to_expon",
               "expon_to_pref"}
    /\ fix_time_freq \in BOOLEAN

Init ==
    /\ pc = "idle"
    /\ op = "none"
    /\ arg = NoValue
    /\ fix_time_freq = FALSE
    /\ result = NoValue
    /\ prefix_map = prefix_map_init
    /\ exponent_map = exponent_map_init

Call(o, a, ftf, r) ==
    /\ pc' = "done"
    /\ op' = o
    /\ arg' = a
    /\ fix_time_freq' = ftf
    /\ result' = r
    /\ UNCHANGED <<prefix_map, exponent_map>>

CallOptSingleBase ==
    /\ pc = "idle"
    /\ \E u \in SingleBaseUnits \cup BadSingleBaseInputs :
           Call("opt_single_base", u, FALSE, opt_single_base(u))

CallOptCompUnits ==
    /\ pc = "idle"
    /\ \E u \in CompUnits : Call("opt_comp_units", u, FALSE, opt_comp_units(u))


CallOptimizeUnit ==
    /\ pc = "idle"
    /\ \E x \in Numbers \cup NamedUnits \cup SmallCompUnits \cup Quantities,
          ftf \in BOOLEAN :
           Call("optimize_unit", x, ftf, optimize_unit(x, ftf))

CallFixhertz ==
    /\ pc = "idle"
    /\ \E x \in Numbers \cup FirstBases \cup Quantities \cup FlatCompUnits :
           Call("fixhertz", x, FALSE, fixhertz(x))

CallFixhertzItem ==
    /\ pc = "idle"
    /\ \E x \in ItemPairs : Call("fixhertz_item", x, FALSE, fixhertz_item(x.base, x.pwr))

CallFixhertzComp ==
    /\ pc = "idle"
    /\ \E u \in FlatCompUnits : Call("fixhertz_comp", u, FALSE, fixhertz_comp(u))

CallFlipPrefix ==
    /\ pc = "idle"
    /\ \E p \in PrefixInputs : Call("flip_prefix", PyStr(p), FALSE, flip_prefix(p))

CallPrefToExpon ==
    /\ pc = "idle"
    /\ \E p \in PrefixInputs : Call("pref_to_expon", PyStr(p), FALSE, pref_to_expon(p))

CallExponToPref ==
    /\ pc = "idle"
    /\ \E e \in ExponInputs : Call("expon_to_pref", PyInt(e), FALSE, expon_to_pref(e))

\* the caller takes the result (or the exception); the next call can be made
Return ==
    /\ pc = "done"
    /\ pc' = "idle"
    /\ op' = "none"
    /\ arg' = NoValue
    /\ fix_time_freq' = FALSE
    /\ result' = NoValue
    /\ UNCHANGED <<prefix_map, exponent_map>>

Next ==
    \/ CallOptSingleBase
    \/ CallOptCompUnits
    \/ CallOptimizeUnit
    \/ CallFixhertz
    \/ CallFixhertzItem
    \/ CallFixhertzComp
    \/ CallFlipPrefix
    \/ CallPrefToExpon
    \/ CallExponToPref
    \/ Return

Spec == Init /\ [][Next]_vars

(***************************************************************************)
(* Physical reading of units, for the properties                           *)
(***************************************************************************)
\* the SI exponent of the prefix a named base carries
PrefixExponentOf(base) ==
    IF base = attosecond THEN -18
    ELSE IF base = kilogram THEN 3
    ELSE IF base = centimeter THEN -2
    ELSE IF IsPrefixUnit(base) THEN prefix_map_init[Head(base.name)]
    ELSE 0

\* the unprefixed symbol of a named base
SymbolOf(base) ==
    IF base = attosecond THEN sym_s
    ELSE IF base = kilogram THEN sym_g
    ELSE IF base = centimeter THEN sym_m
    ELSE IF IsPrefixUnit(base) THEN Tail(base.name)
    ELSE base.name

IrreducibleSet == {second, meter, kilogram, ampere}

\* the total power of the irreducible unit irr in a unit
RECURSIVE DimOf(_, _)
RECURSIVE DimTerms(_, _, _)
DimTerms(bases, powers, irr) ==
    IF bases = <<>> THEN 0
    ELSE (IF IsCompositeUnit(Head(bases)) THEN DimOf(Head(bases), irr) * Head(powers)
          ELSE IF Irreducible(Head(bases)).unit = irr
               THEN Irreducible(Head(bases)).pwr * Head(powers) ELSE 0)
         + DimTerms(Tail(bases), Tail(powers), irr)
DimOf(u, irr) == DimTerms(BasesOf(u), PowersOf(u), irr)

\* the magnitude of a unit in irreducible units: its scale times the prefix
\* factors of its bases raised to their powers
RECURSIVE MagOf(_)
RECURSIVE MagTerms(_, _)
MagTerms(bases, powers) ==
    IF bases = <<>> THEN One
    ELSE NumMul(IF IsCompositeUnit(Head(bases))
                THEN NumPow(MagOf(Head(bases)), Head(powers))
                ELSE Num(1, SIExponent(Head(bases)) * Head(powers)),
                MagTerms(Tail(bases), Tail(powers)))
MagOf(u) == NumMul(ScaleOf(u), MagTerms(BasesOf(u), PowersOf(u)))

PhysicallyEqual(u, v) ==
    /\ \A irr \in IrreducibleSet : DimOf(u, irr) = DimOf(v, irr)
    /\ MagOf(u) = MagOf(v)

\* |v|^(1/p) >= 1 and |v|^(1/p) < 1000
PerUnitGe1(v, p) ==
    IF p > 0 THEN GePow10(NumAbs(v), 0) ELSE LePow10(NumAbs(v), 0)
PerUnitLt1000(v, p) ==
    IF p > 0 THEN LtPow10(NumAbs(v), 3 * p) ELSE GtPow10(NumAbs(v), 3 * p)

\* 10^E <= 10^cur * v^(1/p), for v > 0
AtLeastPow(v, cur, p, E) ==
    IF p > 0 THEN GePow10(v, (E - cur) * p) ELSE LePow10(v, (E - cur) * p)

Mult3 == {3 * k : k \in -20..20}

\* 3 * floor((cur + log10(v) / p) / 3): the multiple of 3 with
\* 10^E <= 10^cur * v^(1/p) < 10^(E + 3)
Floor3(v, cur, p) ==
    CHOOSE E \in Mult3 : AtLeastPow(v, cur, p, E) /\ ~AtLeastPow(v, cur, p, E + 3)

Clamp(x) == IF x < -24 THEN -24 ELSE IF x > 24 THEN 24 ELSE x

(***************************************************************************)
(* opt_single_base                                                         *)
(***************************************************************************)
\* opt_single_base has returned from a call with one (base, power) pair
SingleCase ==
    /\ pc = "done"
    /\ op = "opt_single_base"
    /\ IsCompositeUnit(arg)
    /\ Len(arg.bases) = 1
    /\ arg.scale # Zero
    /\ arg.powers[1] # 0

InExpon == PrefixExponentOf(arg.bases[1])
OutExpon == PrefixExponentOf(result.bases[1])
IdealExpon == Floor3(NumAbs(arg.scale), InExpon, arg.powers[1])
NotClamped == IdealExpon \in -24..24

\* C1: for every single-base input with non-zero scale and power, the prefix
\* exponent of the result of opt_single_base is a multiple of 3 in [-24, 24],
\* and the per-unit magnitude |new_value|^(1/power) is >= 1 whenever the
\* exponent was not clamped at the boundary.
C1_ExponentBound ==
    SingleCase =>
        /\ IsCompositeUnit(result)
        /\ OutExpon \in {3 * k : k \in -8..8}
        /\ NotClamped => PerUnitGe1(result.scale, arg.powers[1])

\* a negative power, an exponent that changed and was not clamped
C1_Witness ==
    /\ SingleCase
    /\ IsCompositeUnit(result)
    /\ NotClamped
    /\ arg.powers[1] < 0
    /\ OutExpon # InExpon
    /\ ~Log10IsInt(NumAbs(arg.scale))

\* C2: opt_single_base returns a one-base composite with the input's power
\* whose scale is the input's scale times 10^(power * (current exponent -
\* new exponent)), so that scale * 10^(power * prefix exponent) of the same
\* underlying unit is what it was, sign included.
C2_ScalePreserved ==
    SingleCase =>
        /\ IsCompositeUnit(result)
        /\ Len(result.bases) = 1
        /\ result.powers = <<arg.powers[1]>>
        /\ SymbolOf(result.bases[1]) = SymbolOf(arg.bases[1])
        /\ result.scale = NumShift(arg.scale, arg.powers[1] * (InExpon - OutExpon))
        /\ NumShift(result.scale, arg.powers[1] * OutExpon)
               = NumShift(arg.scale, arg.powers[1] * InExpon)
        /\ NumSign(result.scale) = NumSign(arg.scale)

\* a negative scale and a negative power with the exponent clamped at +24
C2_Witness ==
    /\ SingleCase
    /\ IsCompositeUnit(result)
    /\ arg.scale.n < 0
    /\ arg.powers[1] < 0
    /\ IdealExpon > 24
    /\ OutExpon = 24
    /\ InExpon # 24

\* C3: the prefix exponent chosen by opt_single_base is
\* clamp(3 * floor((current exponent + log10(|scale|) / power) / 3), -24, 24).
C3_ExponentFormula ==
    SingleCase =>
        /\ IsCompositeUnit(result)
        /\ OutExpon = Clamp(IdealExpon)

\* 1e-6 m^2 gives 1 mm^2
C3_Witness ==
    /\ SingleCase
    /\ arg = CompositeUnit(Num(1, -6), <<meter>>, <<2>>)
    /\ result = CompositeUnit(One, <<PrefixUnit("m", sym_m)>>, <<2>>)

(***************************************************************************)
(* opt_comp_units                                                          *)
(***************************************************************************)
\* opt_comp_units has returned from a call with a composite unit
CompCase ==
    /\ pc = "done"
    /\ op = "opt_comp_units"
    /\ IsCompositeUnit(arg)

\* the first pair of the unit, optimised alone
FirstPairAlone ==
    opt_single_base(CompositeUnit(arg.scale, <<arg.bases[1]>>, <<arg.powers[1]>>))

\* first followed by the pairs 2..N of the argument
WithPairsAppended(first) ==
    CompositeUnit(first.scale,
                  first.bases \o SubSeq(arg.bases, 2, Len(arg.bases)),
                  first.powers \o SubSeq(arg.powers, 2, Len(arg.powers)))

\* C4: for every composite unit with N >= 2 pairs whose first base is not
\* composite, opt_comp_units(unit) is opt_single_base of (unit.scale, first
\* base, first power) followed by the pairs 2..N in their original order,
\* bases and powers unchanged.
C4_FirstBaseOnly ==
    (CompCase /\ Len(arg.bases) >= 2 /\ ~IsCompositeUnit(arg.bases[1])) =>
        /\ IsCompositeUnit(result)
        /\ IsCompositeUnit(FirstPairAlone)
        /\ result = WithPairsAppended(FirstPairAlone)
        /\ Len(result.bases) = Len(arg.bases)
        /\ \A i \in 2..Len(arg.bases) :
               result.bases[i] = arg.bases[i] /\ result.powers[i] = arg.powers[i]

\* three pairs, the two that follow the first differ, and the first changed
C4_Witness ==
    /\ CompCase
    /\ IsCompositeUnit(result)
    /\ Len(arg.bases) = 3
    /\ ~IsCompositeUnit(arg.bases[1])
    /\ <<arg.bases[2], arg.powers[2]>> # <<arg.bases[3], arg.powers[3]>>
    /\ result.bases[1] # arg.bases[1]
    /\ result.scale # arg.scale

\* C5: for every composite unit with N >= 1 pairs, a nested composite first
\* base included, opt_comp_units returns a unit physically equal to its
\* input: the same total power of every underlying base unit and the same
\* overall magnitude.
C5_PhysicallyEqual ==
    (CompCase /\ Len(arg.bases) >= 1) =>
        /\ IsCompositeUnit(result)
        /\ PhysicallyEqual(result, arg)

\* the same property for first bases that are not composite
C5_FlatPhysicallyEqual ==
    (CompCase /\ Len(arg.bases) >= 1 /\ ~IsCompositeUnit(arg.bases[1])) =>
        /\ IsCompositeUnit(result)
        /\ PhysicallyEqual(result, arg)

(***************************************************************************)
(* optimize_unit                                                           *)
(***************************************************************************)
\* optimize_unit has returned
OptimizeCase == pc = "done" /\ op = "optimize_unit"

\* the mean of the absolute values of the elements
MeanAbs(q) ==
    NumDiv(NumSum([i \in DOMAIN q.value |-> NumAbs(q.value[i])]), Num(Len(q.value), 0))

\* optimize_unit has returned from a call with a quantity of non-zero mean
QuantCase == OptimizeCase /\ IsQuantity(arg) /\ MeanAbs(arg) # Zero

\* the unit of the quantity with x multiplied into its scale
ScaledUnit(q, x) ==
    CompositeUnit(NumMul(x, ScaleOf(q.unit)), BasesOf(q.unit), PowersOf(q.unit))

\* (value / mean) * s' with unit u', for (s', u') the optimised unit o
Rescaled(q, o) ==
    IF IsError(o) THEN o
    ELSE Quantity([i \in DOMAIN q.value |->
                      NumMul(NumDiv(q.value[i], MeanAbs(q)), o.scale)],
                  q.isscalar,
                  CompositeUnit(One, o.bases, o.powers))

\* the scale of the optimised unit o attached to its bases and powers
ScaleAttached(o) ==
    IF IsError(o) THEN o
    ELSE Quantity(<<o.scale>>, TRUE, CompositeUnit(One, o.bases, o.powers))

Optimised(u) == IF IsError(u) THEN u ELSE opt_comp_units(u)

RecombinedPlain ==
    /\ result = Rescaled(arg, Optimised(ScaledUnit(arg, MeanAbs(arg))))
    /\ arg.isscalar => result = ScaleAttached(Optimised(ScaledUnit(arg, arg.value[1])))

\* the statement of C6 for every call, whatever fix_time_freq is
C6_Original == QuantCase => RecombinedPlain

\* C6: with fix_time_freq not set, for a quantity with non-zero mean absolute
\* value optimize_unit returns (value / mean) * s' with unit u', (s', u') being
\* opt_comp_units of the quantity's unit with the mean multiplied into its
\* scale (an error of that call is the error of optimize_unit); for a scalar
\* v * U this is the scale of opt_comp_units(v * U.scale, U.bases, U.powers)
\* attached to that result's bases and powers.
C6_Recombination == (QuantCase /\ ~fix_time_freq) => RecombinedPlain

\* an array with elements of both signs whose unit has a scale and whose
\* prefix changed
C6_Witness ==
    /\ QuantCase
    /\ ~fix_time_freq
    /\ ~arg.isscalar
    /\ Len(arg.value) >= 2
    /\ \E i, j \in DOMAIN arg.value : arg.value[i].n < 0 /\ arg.value[j].n > 0
    /\ IsQuantity(result)
    /\ ScaleOf(arg.unit) # One
    /\ result.unit.bases # BasesOf(arg.unit)

\* some power of ten turns every element of the argument into the element
\* of the result at the same place
SamePowerOfTen ==
    \E k \in -60..60 :
        \A i \in DOMAIN arg.value : result.value[i] = NumShift(arg.value[i], k)

\* C7: for an array quantity optimize_unit multiplies every element by the
\* same power of ten: the number of elements, their order, signs and ratios are
\* unchanged and each element denotes the same physical value as before.
C7_ArrayFactor ==
    (QuantCase /\ ~arg.isscalar) =>
        /\ IsQuantity(result)
        /\ ~result.isscalar
        /\ Len(result.value) = Len(arg.value)
        /\ SamePowerOfTen
        /\ \A irr \in IrreducibleSet : DimOf(result.unit, irr) = DimOf(arg.unit, irr)
        /\ \A i \in DOMAIN arg.value :
               NumMul(result.value[i], MagOf(result.unit))
                   = NumMul(arg.value[i], MagOf(arg.unit))

\* the same property for the units of scale 1, when a quantity is returned
C7_PlainUnits ==
    (QuantCase /\ ~arg.isscalar /\ ScaleOf(arg.unit) = One /\ IsQuantity(result)) =>
        /\ ~result.isscalar
        /\ Len(result.value) = Len(arg.value)
        /\ SamePowerOfTen
        /\ \A irr \in IrreducibleSet : DimOf(result.unit, irr) = DimOf(arg.unit, irr)
        /\ \A i \in DOMAIN arg.value :
               NumMul(result.value[i], MagOf(result.unit))
                   = NumMul(arg.value[i], MagOf(arg.unit))

\* C8: optimize_unit of a quantity whose mean absolute value is 0 returns the
\* quantity unchanged, value and unit, for any unit and both values of
\* fix_time_freq.
C8_ZeroUnchanged ==
    (OptimizeCase /\ IsQuantity(arg) /\ \A i \in DOMAIN arg.value : arg.value[i] = Zero) =>
        result = arg

\* an array of zeros in 1/Hz with fix_time_freq set
C8_Witness ==
    /\ OptimizeCase
    /\ fix_time_freq
    /\ arg = Quantity(<<Zero, Zero>>, FALSE, CompositeUnit(One, <<hertz>>, <<-1>>))
    /\ result = arg

KindOf(x) == IF IsNamedUnit(x) THEN "NamedUnit" ELSE x.cls

\* C9: optimize_unit returns a named unit and a plain number unchanged, a
\* composite unit as opt_comp_units of it, and its result is of the kind of
\* its input.
C9_Dispatch ==
    OptimizeCase =>
        /\ IsNamedUnit(arg) => result = arg
        /\ arg.cls = "Number" => result = arg
        /\ IsCompositeUnit(arg) => result = opt_comp_units(arg)
        /\ KindOf(result) = KindOf(arg)

\* the same property for the inputs that have a base
C9_WithBase ==
    (OptimizeCase /\ (IsCompositeUnit(arg) => arg.bases # <<>>)
                  /\ (IsQuantity(arg) => BasesOf(arg.unit) # <<>>)) =>
        /\ IsNamedUnit(arg) => result = arg
        /\ arg.cls = "Number" => result = arg
        /\ IsCompositeUnit(arg) => result = opt_comp_units(arg)
        /\ KindOf(result) = KindOf(arg) \/ IsError(result)

FlipFirst == Optimised(fixhertz(ScaledUnit(arg, MeanAbs(arg))))
FlipLast == FlipAfter(Optimised(ScaledUnit(arg, MeanAbs(arg))))

\* C10: with fix_time_freq set and a quantity of non-zero mean, the unit with
\* the mean folded into its scale is flipped before the prefix optimisation:
\* the result is built from opt_comp_units(fixhertz(unit_with_mean)) and not
\* from fixhertz(opt_comp_units(unit_with_mean)).
C10_FlipBeforeOptimise ==
    (QuantCase /\ fix_time_freq) =>
        /\ result = Rescaled(arg, FlipFirst)
        /\ FlipFirst # FlipLast => result # Rescaled(arg, FlipLast)

\* 1e4 / Hz gives 10 ks, where the flip after the optimisation gives 0.01 Ms
C10_Witness ==
    /\ QuantCase
    /\ fix_time_freq
    /\ arg = Quantity(<<Num(1, 4)>>, TRUE, CompositeUnit(One, <<hertz>>, <<-1>>))
    /\ result = Quantity(<<Num(1, 1)>>, TRUE,
                         CompositeUnit(One, <<PrefixUnit("k", sym_s)>>, <<1>>))
    /\ FlipLast = CompositeUnit(Num(1, -2), <<PrefixUnit("M", sym_s)>>, <<1>>)

(***************************************************************************)
(* fixhertz                                                                *)
(***************************************************************************)
\* fixhertz has returned
FlipCase == pc = "done" /\ op = "fixhertz"

UnitOf(x) == IF IsQuantity(x) THEN x.unit ELSE x
ValueOf(x) == IF IsQuantity(x) THEN x.value ELSE <<>>

\* fixhertz has returned from a call with v * b^-n for a positive n: the
\* quantity of value v whose unit is b^-n
InversePowerOf(b) ==
    /\ FlipCase
    /\ IsQuantity(arg)
    /\ ScaleOf(arg.unit) = One
    /\ BasesOf(arg.unit) = <<b>>
    /\ PowersOf(arg.unit)[1] < 0

\* y is v * b^n for the v and the n of the argument v * c^-n
IsFlipOfArg(y, b) ==
    /\ ~IsError(y)
    /\ IsQuantity(y) = IsQuantity(arg)
    /\ ValueOf(y) = ValueOf(arg)
    /\ ScaleOf(UnitOf(y)) = ScaleOf(UnitOf(arg))
    /\ BasesOf(UnitOf(y)) = <<b>>
    /\ PowersOf(UnitOf(y)) = <<-PowersOf(UnitOf(arg))[1]>>

\* the statement of C11 as written: the second flip of v * second^-n gives
\* v * second^n
C11_Original ==
    InversePowerOf(second) =>
        /\ IsFlipOfArg(result, hertz)
        /\ IsFlipOfArg(fixhertz(result), second)

\* C11: for any positive integer power n and value v, flipping v * second^-n
\* yields v * hertz^n and flipping v * hertz^-n yields v * second^n, the sign
\* and the magnitude of v exactly preserved.
C11_RoundTrip ==
    /\ InversePowerOf(second) => IsFlipOfArg(result, hertz)
    /\ InversePowerOf(hertz) => IsFlipOfArg(result, second)

\* a negative v and n = 2, from hertz to second
C11_Witness ==
    /\ InversePowerOf(hertz)
    /\ arg.isscalar
    /\ arg.value[1].n < 0
    /\ arg.unit.powers = <<-2>>
    /\ result = Quantity(arg.value, TRUE, CompositeUnit(One, <<second>>, <<2>>))

(***************************************************************************)
(* fixhertz_item                                                           *)
(***************************************************************************)
\* fixhertz_item has returned
ItemCase == pc = "done" /\ op = "fixhertz_item"

TimeOrFrequency(base) == base.physical_type \in {"time", "frequency"}

\* C12: fixhertz_item returns the pair (base, power) unchanged whenever
\* power >= 0, second and hertz prefixed or not included, or the dimension of
\* the base is neither time nor frequency, for every power and for prefixed
\* bases too.
C12_DimensionGuard ==
    (ItemCase /\ (arg.pwr >= 0 \/ ~TimeOrFrequency(arg.base))) => result = arg

\* a prefixed ampere with a negative power
C12_Witness ==
    /\ ItemCase
    /\ arg = PyTuple(PrefixUnit("Y", sym_A), -1)
    /\ result = arg

\* fixhertz_item has returned from a call with a prefixed second or hertz
\* raised to a negative power
PrefixedFlipCase ==
    /\ ItemCase
    /\ IsPrefixUnit(arg.base)
    /\ SymbolOf(arg.base) \in {sym_s, sym_Hz}
    /\ arg.pwr < 0

OtherSymbol(sym) == IF sym = sym_s THEN sym_Hz ELSE sym_s

\* the pair of the other symbol, the opposite prefix exponent and the
\* opposite power
FlippedPair ==
    /\ ~IsError(result)
    /\ IsPrefixUnit(result.base)
    /\ SymbolOf(result.base) = OtherSymbol(SymbolOf(arg.base))
    /\ PrefixExponentOf(result.base) = -PrefixExponentOf(arg.base)
    /\ result.pwr = -arg.pwr
    /\ arg.base = attosecond => result.base = exahertz

\* C13: for a second- or hertz-based base carrying one of the 16 SI prefixes
\* with exponent e, raised to p < 0, fixhertz_item returns the other base
\* symbol carrying the prefix of exponent -e, raised to -p; attosecond^p gives
\* exahertz^-p.
C13_PrefixFlip == PrefixedFlipCase => FlippedPair

\* the same property for every prefixed base but exahertz
C13_ExceptExahertz == (PrefixedFlipCase /\ arg.base # exahertz) => FlippedPair

\* the value and the shape of the argument are those of the result
PayloadKept ==
    /\ IsQuantity(result)
    /\ result.value = arg.value
    /\ result.isscalar = arg.isscalar

\* C14: fixhertz applied to a quantity, scalar or array, returns a quantity
\* with exactly the same values in the same order; applied to a plain number
\* or a bare named unit it returns its input.
C14_PayloadUnchanged ==
    FlipCase =>
        /\ IsQuantity(arg) => PayloadKept
        /\ (arg.cls = "Number" \/ IsNamedUnit(arg)) => result = arg

\* the same property for the calls that return
C14_WhenReturned ==
    (FlipCase /\ ~IsError(result)) =>
        /\ IsQuantity(arg) => PayloadKept
        /\ (arg.cls = "Number" \/ IsNamedUnit(arg)) => result = arg

(***************************************************************************)
(* fixhertz_comp                                                           *)
(***************************************************************************)
\* fixhertz_comp has returned
CompFlipCase == pc = "done" /\ op = "fixhertz_comp" /\ IsCompositeUnit(arg)

\* the flip of the i-th pair of the argument
ItemFlip(i) == fixhertz_item(arg.bases[i], arg.powers[i])

\* the result holds the flipped pairs of the argument in their order
PairsFlippedInOrder ==
    /\ ~IsError(result)
    /\ BasesOf(result) = [i \in DOMAIN arg.bases |-> ItemFlip(i).base]
    /\ PowersOf(result) = [i \in DOMAIN arg.bases |-> ItemFlip(i).pwr]

\* a bare base exactly for one base of power 1 and scale 1, the scale of the
\* argument otherwise
BareOnlyForUnit ==
    /\ IsNamedUnit(result) <=>
           (Len(arg.bases) = 1 /\ PowersOf(result) = <<1>> /\ arg.scale = One)
    /\ IsCompositeUnit(result) => result.scale = arg.scale

\* C15: fixhertz_comp flips every pair of a composite unit, keeping the
\* order; it returns a bare base only when the result is a single base of
\* power 1 and the scale is 1, and a composite of exactly the input's scale in
\* every other case; a composite with no bases is returned unchanged.
C15_CompFlip ==
    CompFlipCase =>
        /\ arg.bases = <<>> => result = arg
        /\ arg.bases # <<>> => (PairsFlippedInOrder /\ BareOnlyForUnit)

\* the same property for the scales that are 1 or not close to 1, when
\* every pair can be flipped
C15_ScaleNotNearUnity ==
    (CompFlipCase /\ (arg.scale = One \/ ~is_unity(arg.scale))
                  /\ \A i \in DOMAIN arg.bases : ~IsError(ItemFlip(i))) =>
        /\ arg.bases = <<>> => result = arg
        /\ arg.bases # <<>> => (PairsFlippedInOrder /\ BareOnlyForUnit)

(***************************************************************************)
(* The prefix lookups                                                      *)
(***************************************************************************)
\* the decimal exponent of each of the 16 SI prefixes
SIPrefixExponent ==
    "y" :> -24 @@ "z" :> -21 @@ "a" :> -18 @@ "f" :> -15 @@ "p" :> -12 @@
    "n" :> -9 @@ "u" :> -6 @@ "m" :> -3 @@ "k" :> 3 @@ "M" :> 6 @@ "G" :> 9 @@
    "T" :> 12 @@ "P" :> 15 @@ "E" :> 18 @@ "Z" :> 21 @@ "Y" :> 24

SIPrefixSymbols == DOMAIN SIPrefixExponent

\* flip_prefix has returned from a call with one of the 16 prefixes
FlipPrefixCase ==
    pc = "done" /\ op = "flip_prefix" /\ arg.value \in SIPrefixSymbols

\* C16: flip_prefix maps each of the 16 SI prefixes to the prefix of the
\* opposite exponent, the i-th to the (15 - i)-th in ascending order, and
\* flip_prefix(flip_prefix(p)) = p.
C16_FlipInvolution ==
    FlipPrefixCase =>
        /\ result.cls = "str"
        /\ result.value \in SIPrefixSymbols
        /\ SIPrefixExponent[result.value] = -SIPrefixExponent[arg.value]
        /\ IndexOf(si_prefixes, result.value) - 1
               = 15 - (IndexOf(si_prefixes, arg.value) - 1)
        /\ flip_prefix(result.value) = arg

\* femto gives peta
C16_Witness ==
    /\ FlipPrefixCase
    /\ arg = PyStr("f")
    /\ result = PyStr("P")

Multiples3 == {3 * k : k \in -8..8}

PrefToExponAsStated ==
    IF arg.value \in SIPrefixSymbols
    THEN result = PyInt(SIPrefixExponent[arg.value])
    ELSE result = Raise("ValueError")

ExponToPrefFor(valid) ==
    IF arg.value \in valid
    THEN /\ result.cls = "str"
         /\ result.value \in SIPrefixSymbols
         /\ SIPrefixExponent[result.value] = arg.value
    ELSE result = Raise("ValueError")

SingleBaseCall == pc = "done" /\ op = "opt_single_base" /\ IsCompositeUnit(arg)

\* C18: opt_single_base raises the same invalid-input error for a composite
\* unit with no base and for one with more than one base, and succeeds only
\* for exactly one (base, power) pair.
C18_InvalidInput ==
    SingleBaseCall =>
        /\ Len(arg.bases) # 1 => result = Raise("TypeError")
        /\ ~IsError(result) => Len(arg.bases) = 1

\* the same property for the units that have a base
C18_MoreThanOneBase ==
    (SingleBaseCall /\ Len(arg.bases) >= 1) =>
        /\ Len(arg.bases) # 1 => result = Raise("TypeError")
        /\ ~IsError(result) => Len(arg.bases) = 1

(***************************************************************************)
(* The scale opt_single_base leaves                                        *)
(***************************************************************************)
\* opt_single_base has returned a unit and the exponent was not clamped
UnclampedResult == SingleCase /\ NotClamped /\ IsCompositeUnit(result)

\* the statement of C19 as written: the scale is not below 1 whatever the
\* sign of the power
C19_Original == UnclampedResult => GePow10(NumAbs(result.scale), 0)

\* C19: for every single-base input with non-zero scale and non-zero power,
\* unless the exponent was clamped, the absolute value of the scale of the
\* result is not below 1 for a positive power and not above 1 for a negative
\* power.
C19_ScaleBound ==
    /\ (SingleCase /\ NotClamped) => IsCompositeUnit(result)
    /\ (UnclampedResult /\ arg.powers[1] > 0) => GePow10(NumAbs(result.scale), 0)
    /\ (UnclampedResult /\ arg.powers[1] < 0) => LePow10(NumAbs(result.scale), 0)

\* 1e-5 m^-2 stays 1e-5 m^-2
C19_Witness ==
    /\ UnclampedResult
    /\ arg = CompositeUnit(Num(1, -5), <<meter>>, <<-2>>)
    /\ result = arg
    /\ ~GePow10(NumAbs(result.scale), 0)

(***************************************************************************)
(* Dimensionless quantities                                                *)
(***************************************************************************)
\* C20: optimize_unit applied to a quantity with non-zero value whose unit has
\* no bases completes without error and returns the quantity unchanged.
C20_Dimensionless ==
    (OptimizeCase /\ IsQuantity(arg) /\ BasesOf(arg.unit) = <<>>
                  /\ \E i \in DOMAIN arg.value : arg.value[i] # Zero) =>
        result = arg

(***************************************************************************)
(* What the calls leave behind                                             *)
(***************************************************************************)
\* the tables hold the 16 prefix/exponent pairs and invert each other
TablesIntact ==
    /\ prefix_map = SIPrefixExponent
    /\ Cardinality(DOMAIN prefix_map) = 16
    /\ DOMAIN exponent_map = {prefix_map[p] : p \in DOMAIN prefix_map}
    /\ \A p \in DOMAIN prefix_map : exponent_map[prefix_map[p]] = p
    /\ \A e \in DOMAIN exponent_map : prefix_map[exponent_map[e]] = e

Exceptions == {"ValueError", "TypeError", "IndexError", "ZeroDivisionError"}

\* a call that failed left an exception and nothing else
FailureIsBare == IsError(result) => result \in {Raise(e) : e \in Exceptions}

BaseWithExponent(sym, e) ==
    IF e = 0 THEN NamedUnit(IF sym \in {sym_s, sym_m, sym_A} THEN "IrreducibleUnit"
                            ELSE "Unit", sym, PhysicalType(sym))
    ELSE IF sym = sym_g /\ e = 3 THEN kilogram
    ELSE IF sym = sym_s /\ e = -18 THEN attosecond
    ELSE PrefixUnit(CHOOSE p \in SIPrefixSymbols : SIPrefixExponent[p] = e, sym)

\* C22: opt_single_base reads attosecond as (s, -18), kilogram as (g, 3),
\* centimeter as (m, -2), any other prefixed base as (symbol, prefix exponent)
\* and an unprefixed base as (symbol, 0); its result carries a prefix whose
\* exponent is a multiple of 3, never centi, no prefix for the exponent 0,
\* and is kilogram for gram with exponent 3 and attosecond for second with
\* exponent -18.
C22_BaseReadAndWritten ==
    SingleCase =>
        /\ BaseNameExpon(arg.bases[1])
               = [unit_name |-> SymbolOf(arg.bases[1]), expon |-> PyInt(InExpon)]
        /\ IsCompositeUnit(result)
        /\ Clamp(IdealExpon) \in Multiples3
        /\ result.bases = <<BaseWithExponent(SymbolOf(arg.bases[1]), Clamp(IdealExpon))>>
        /\ result.bases[1] # centimeter

\* 1e5 cm becomes 1 km
C22_Witness ==
    /\ SingleCase
    /\ arg = CompositeUnit(Num(1, 5), <<centimeter>>, <<1>>)
    /\ result = CompositeUnit(One, <<PrefixUnit("k", sym_m)>>, <<1>>)

\* 1e-3 kg becomes 1 g, 1e3 g becomes 1 kg, 1e-3 fs becomes 1 attosecond
C22_SpecialUnitsReached ==
    /\ SingleCase
    /\ \/ arg.bases = <<kilogram>> /\ result.bases = <<gram>>
       \/ arg.bases = <<gram>> /\ result.bases = <<kilogram>>
       \/ arg.bases = <<PrefixUnit("f", sym_s)>> /\ result.bases = <<attosecond>>

(***************************************************************************)
(* The branch of a composite first base                                    *)
(***************************************************************************)
\* opt_comp_units has returned from a call whose first base is composite
NestedCase ==
    /\ CompCase
    /\ Len(arg.bases) >= 1
    /\ IsCompositeUnit(arg.bases[1])

\* the first base of the argument, decomposed
Decomposed == Decompose(arg.bases[1])

\* the first decomposed base with its power times r and the scale of the unit
ReducedPair ==
    CompositeUnit(arg.scale, <<Decomposed.bases[1]>>,
                  <<Decomposed.powers[1] * arg.powers[1]>>)

\* first, then the other decomposed terms, then the pairs 2..N of the argument
SplicedAndAppended(first) ==
    CompositeUnit(first.scale,
                  first.bases \o Tail(Decomposed.bases) \o Tail(arg.bases),
                  first.powers \o Tail(Decomposed.powers) \o Tail(arg.powers))

\* the result is the optimised reduced pair, spliced and appended, and the
\* call made on the reduced pair does not take the composite branch again
StepsOfNestedBranch ==
    /\ Len(Decomposed.bases) >= 1
    /\ ~IsCompositeUnit(Decomposed.bases[1])
    /\ IsCompositeUnit(opt_single_base(ReducedPair))
    /\ result = SplicedAndAppended(opt_single_base(ReducedPair))

\* C23: when the first base of a composite unit is itself a composite raised
\* to the power r, opt_comp_units decomposes that base, optimises the single
\* pair (first decomposed base, its decomposed power times r) carrying the
\* scale of the whole unit, splices the remaining decomposed terms after it
\* and appends the outer pairs 2..N unchanged; the recursion is one level deep.
C23_NestedBranch ==
    NestedCase => StepsOfNestedBranch

\* the same steps for a first base whose decomposition has a base
C23_WithDecomposedBase ==
    (NestedCase /\ Len(Decomposed.bases) >= 1) => StepsOfNestedBranch

\* ((km s^-1))^2 s^-1 with a scale: the reduced pair is in m^2, the decomposed
\* s^-1 and the outer s^-1 follow it
C23_Reached ==
    /\ NestedCase
    /\ arg.bases = <<CompositeUnit(One, <<PrefixUnit("k", sym_m), second>>, <<1, -1>>),
                     second>>
    /\ arg.powers = <<2, -1>>
    /\ IsCompositeUnit(result)
    /\ SymbolOf(result.bases[1]) = sym_m
    /\ result.bases[1] # meter
    /\ Tail(result.bases) = <<second, second>>
    /\ result.powers = <<2, -1, -1>>

(***************************************************************************)
(* opt_single_base applied to its own result                               *)
(***************************************************************************)
\* C24: for every single-base input with non-zero scale and non-zero power,
\* opt_single_base applied to its own result returns the same base, prefix,
\* power and scale, results that are kilogram or attosecond and results
\* clamped at yocto or yotta included.
C24_Idempotent ==
    SingleCase =>
        /\ IsCompositeUnit(result)
        /\ opt_single_base(result) = result

\* a result whose prefix changed and whose scale changed
C24_Witness ==
    /\ SingleCase
    /\ IsCompositeUnit(result)
    /\ OutExpon # InExpon
    /\ result.scale # arg.scale
    /\ opt_single_base(result) = result

\* results that are kilogram, attosecond, clamped at yotta and clamped at yocto
C24_KilogramReached == SingleCase /\ result.bases = <<kilogram>> /\ arg.bases # <<kilogram>>
C24_AttosecondReached == SingleCase /\ result.bases = <<attosecond>> /\ arg.bases # <<attosecond>>
C24_YottaReached == SingleCase /\ IdealExpon > 24 /\ OutExpon = 24
C24_YoctoReached == SingleCase /\ IdealExpon < -24 /\ OutExpon = -24

(***************************************************************************)
(* One quantity written with different prefixes                            *)
(***************************************************************************)
\* the named units of the symbol of base
WritingsOf(base) == {b \in NamedUnits : SymbolOf(b) = SymbolOf(base)}

\* the argument written with the base b: the same value of
\* scale * 10^(power * prefix exponent)
Rewritten(b) ==
    CompositeUnit(NumShift(arg.scale, arg.powers[1] * (InExpon - PrefixExponentOf(b))),
                  <<b>>, arg.powers)

\* C25: two single-base inputs with the same underlying unit, the same power
\* and the same value of scale * 10^(power * prefix exponent) give the same
\* prefix and the same scale: the result of opt_single_base does not depend
\* on the prefix the input was written with.
C25_WritingIndependent ==
    SingleCase =>
        /\ IsCompositeUnit(result)
        /\ \A b \in WritingsOf(arg.bases[1]) : opt_single_base(Rewritten(b)) = result

\* 100 cm and 1 m both become 1 m
C25_Witness ==
    /\ SingleCase
    /\ arg = CompositeUnit(Num(1, 2), <<centimeter>>, <<1>>)
    /\ Rewritten(meter) = CompositeUnit(One, <<meter>>, <<1>>)
    /\ result = CompositeUnit(One, <<meter>>, <<1>>)
    /\ opt_single_base(Rewritten(meter)) = result

\* 1000 mg and 1 g both become 1 g; 5e-3 kg^-2 and 5e3 g^-2 agree
C25_GramReached ==
    /\ SingleCase
    /\ \/ /\ arg = CompositeUnit(Num(1, 3), <<PrefixUnit("m", sym_g)>>, <<1>>)
          /\ result = CompositeUnit(One, <<gram>>, <<1>>)
       \/ /\ arg = CompositeUnit(Num(5, -3), <<kilogram>>, <<-2>>)
          /\ Rewritten(gram) = CompositeUnit(Num(5, 3), <<gram>>, <<-2>>)

(***************************************************************************)
(* fixhertz_comp applied to its own result                                 *)
(***************************************************************************)
\* no second- or hertz-based base of u has a negative power
NoFlippablePair(u) ==
    \A i \in DOMAIN BasesOf(u) :
        SymbolOf(BasesOf(u)[i]) \in {sym_s, sym_Hz} => PowersOf(u)[i] >= 0

\* the result is a unit without flippable pair that fixhertz_comp leaves alone
FlippedOnceAndForAll ==
    /\ ~IsError(result)
    /\ NoFlippablePair(result)
    /\ fixhertz_comp(result) = result

\* C26: in the result of fixhertz_comp no second- or hertz-based base,
\* unprefixed or with one of the 16 SI prefixes, has a negative power, and
\* fixhertz_comp applied to the result returns it unchanged.
C26_FlipIdempotent ==
    CompFlipCase => FlippedOnceAndForAll

\* the same property for the units without an exahertz of negative power
C26_ExceptExahertz ==
    (CompFlipCase /\ \A i \in DOMAIN arg.bases :
                         ~(arg.bases[i] = exahertz /\ arg.powers[i] < 0)) =>
        FlippedOnceAndForAll

\* a unit with a flipped pair, returned as a composite unit and as a bare unit
C26_Reached ==
    /\ CompFlipCase
    /\ FlippedOnceAndForAll
    /\ ~NoFlippablePair(arg)
    /\ \/ IsCompositeUnit(result) /\ Len(result.bases) >= 2
       \/ IsNamedUnit(result)

(***************************************************************************)
(* The upper bound of the per-unit magnitude                               *)
(***************************************************************************)
\* the scale the argument has when written with the prefix of exponent E
ScaleWith(E) == NumShift(arg.scale, arg.powers[1] * (InExpon - E))

\* the per-unit magnitude with the prefix of exponent E is in [1, 1000)
InBand(E) ==
    /\ PerUnitGe1(ScaleWith(E), arg.powers[1])
    /\ PerUnitLt1000(ScaleWith(E), arg.powers[1])

\* C27: whenever the exponent chosen by opt_single_base is not clamped at +24,
\* the per-unit magnitude |new_value|^(1/power) of the result is strictly
\* below 1000; with the lower bound, the chosen prefix exponent is the only
\* multiple of 3 that gives a per-unit magnitude in [1, 1000).
C27_UpperBound ==
    SingleCase =>
        /\ IsCompositeUnit(result)
        /\ IdealExpon <= 24 => PerUnitLt1000(result.scale, arg.powers[1])
        /\ NotClamped => /\ result.scale = ScaleWith(OutExpon)
                         /\ \A E \in Mult3 : InBand(E) <=> E = OutExpon

\* 99e4 ms^-2 becomes 0.99 us^-2: the per-unit magnitude is about 1.005
C27_Witness ==
    /\ SingleCase
    /\ NotClamped
    /\ arg = CompositeUnit(Num(99, 4), <<PrefixUnit("m", sym_s)>>, <<-2>>)
    /\ result = CompositeUnit(Num(99, -2), <<PrefixUnit("u", sym_s)>>, <<-2>>)
    /\ InBand(-6)
    /\ ~InBand(-3)
    /\ ~InBand(-9)

\* clamped at -24: the per-unit magnitude is below 1
C27_YoctoReached ==
    /\ SingleCase
    /\ IdealExpon < -24
    /\ PerUnitLt1000(result.scale, arg.powers[1])
    /\ ~PerUnitGe1(result.scale, arg.powers[1])

(***************************************************************************)
(* The reach of fix_time_freq                                              *)
(***************************************************************************)
\* a plain number, a bare named unit, a composite unit without a quantity or
\* a quantity whose elements are all zero
OutsideTheFlag ==
    \/ arg.cls = "Number"
    \/ IsNamedUnit(arg)
    \/ IsCompositeUnit(arg)
    \/ IsQuantity(arg) /\ \A i \in DOMAIN arg.value : arg.value[i] = Zero

\* C28: for a plain number, a bare named unit, a composite unit without a
\* quantity and a zero-valued quantity, optimize_unit returns the same result
\* for fix_time_freq = True and fix_time_freq = False.
C28_FlagWithoutEffect ==
    (OptimizeCase /\ OutsideTheFlag) =>
        /\ result = optimize_unit(arg, fix_time_freq)
        /\ result = optimize_unit(arg, ~fix_time_freq)

\* the flag set on a composite unit with a pair fixhertz would flip
C28_Witness ==
    /\ OptimizeCase
    /\ fix_time_freq
    /\ IsCompositeUnit(arg)
    /\ IsCompositeUnit(fixhertz(arg))
    /\ fixhertz(arg) # arg
    /\ result = opt_comp_units(arg)
    /\ result # opt_comp_units(fixhertz(arg))

\* the flag set on a zero-valued quantity in s^-1 and on a named unit
C28_ZeroReached ==
    /\ OptimizeCase
    /\ fix_time_freq
    /\ IsQuantity(arg)
    /\ OutsideTheFlag
    /\ fixhertz(arg) # arg
    /\ result = arg

\* for a quantity of non-zero mean the flag changes the result
C28_FlagMatters ==
    /\ QuantCase
    /\ ~IsError(result)
    /\ result # optimize_unit(arg, ~fix_time_freq)

====
